---------------------------- MODULE Spec2Model ----------------------------
(***************************************************************************)
(* OpenList (src/openlist.py): the recursive crawl of directory listings   *)
(* by the main thread (crawl_directory), the download queue, the worker    *)
(* threads (worker_thread / download_file), cancellation by signal         *)
(* (signal_handler) and the progress file (save_progress).                 *)
(*                                                                         *)
(* URLs are modelled on one host: a URL is its path, a sequence of         *)
(* segments, and whether it was written with a trailing '/'.  A link of a  *)
(* listing is its raw href: whether it starts with '/', its segments       *)
(* (".." and "." included), whether it ends with '/', and whether the      *)
(* link's display name ends with '/'.                                      *)
(*                                                                         *)
(* The listing parser (detect_server_type, the parse_*_listing routines    *)
(* and the validation of parse_directory_listing) is also checked on its   *)
(* own, on pages of a few anchors under every server fingerprint           *)
(* (SpecParse).                                                            *)
(***************************************************************************)
EXTENDS Integers, Sequences, FiniteSets, Bags, TLC

\* ------------------------------------------------------------------ bounds
NumWorkers == 2        \* max_workers of the run
MaxDepth   == 2        \* max_depth is drawn from 0..MaxDepth
MaxFaults  == 1        \* transient network / disk faults injected per run
MaxPass    == 2        \* runs of the tool against the same output directory

\* ------------------------------------------------------------- URLs, hrefs
Url(path, slash) == [path |-> path, slash |-> slash]

Href(abs, segs, slash) ==
    [abs |-> abs, segs |-> segs, slash |-> slash, nameSlash |-> FALSE]

\* A link whose display name ends in '/' although its href does not.
HrefNamed(abs, segs, slash) ==
    [abs |-> abs, segs |-> segs, slash |-> slash, nameSlash |-> TRUE]

Front(s) == IF s = <<>> THEN <<>> ELSE SubSeq(s, 1, Len(s) - 1)

\* Dot-segment removal of urllib.parse.urljoin: "." disappears, ".." removes
\* the segment before it (and nothing at the top).
RECURSIVE RemoveDots(_, _)
RemoveDots(acc, segs) ==
    IF segs = <<>> THEN acc
    ELSE IF Head(segs) = "."  THEN RemoveDots(acc, Tail(segs))
    ELSE IF Head(segs) = ".." THEN RemoveDots(Front(acc), Tail(segs))
    ELSE RemoveDots(Append(acc, Head(segs)), Tail(segs))

\* The scheme an href starts with, "" when it has none.  An href with a
\* scheme is written as one segment, as 'mailto:m'.
SchemeOf(href) ==
    IF href.abs \/ Len(href.segs) # 1 THEN ""
    ELSE CASE href.segs[1] = "mailto:m"     -> "mailto:"
           [] href.segs[1] = "javascript:j" -> "javascript:"
           [] href.segs[1] = "tel:1"        -> "tel:"
           [] OTHER -> ""

\* The href '#'.
FragmentOnly(href) == ~href.abs /\ href.segs = <<"#">> /\ ~href.slash

\* urllib.parse.urljoin(base, href): an href with a scheme of its own is
\* the result; '#' gives the base; an href starting with '/' replaces the
\* path; any other href replaces the last segment of a base written
\* without trailing '/', and is appended to a base written with one.
urljoin(base, href) ==
    LET dir  == IF base.slash THEN base.path ELSE Front(base.path)
        segs == IF href.abs THEN href.segs ELSE dir \o href.segs
        last == IF href.segs = <<>> THEN "" ELSE href.segs[Len(href.segs)]
    IN  IF SchemeOf(href) # "" THEN Url(href.segs, FALSE)
        ELSE IF FragmentOnly(href) THEN base
        ELSE Url(RemoveDots(<<>>, segs),
                 href.slash \/ last \in {".", ".."})

\* str.rstrip('/') of the root URL given on the command line.
rstrip(u) == Url(u.path, FALSE)

\* '..' in path (is_safe_path): some segment of the href is "..".
HasDotDot(href) == \E i \in 1..Len(href.segs) : href.segs[i] = ".."

\* -------------------------------------------------------------- file names
\* Path(name).suffix.lower().lstrip('.') of the names the sites use.
Suffix(name) ==
    CASE name \in {"x.txt", "y.txt", "z.txt", "s.txt", "U.TXT"} -> "txt"
      [] name = "p.php" -> "php"
      [] name = "i.png" -> "png"
      [] OTHER -> ""

\* any(param in path.lower() for param in ['?','&','.php','.asp','.jsp','.cgi'])
LooksDynamic(path) == \E i \in 1..Len(path) : Suffix(path[i]) = "php"

\* any(ext in path.lower() for ext in ['.pdf', '.doc', '.txt', '.zip'])
LooksStatic(path) == \E i \in 1..Len(path) : Suffix(path[i]) = "txt"

\* len of the body the server streams for a file.
BodySize(path) == IF path = <<>> THEN 0 ELSE IF path[Len(path)] = "x.txt" THEN 2 ELSE 1

\* ------------------------------------------------------------ the web site
\* The server the run talks to: which paths are directories, the links of
\* each directory's listing page, and which paths are files.
Sites == {"tree", "dup", "sub", "pub"}

\* A site whose listings write their links as absolute paths, checked on
\* its own.
AbsSite == "abs"

\* The URL given on the command line.
RootOf(site) == IF site \in {"sub", "abs"} THEN Url(<<"files">>, TRUE) ELSE Url(<<>>, TRUE)

DirListing(site, path) ==
    CASE site = "tree" /\ path = <<>> ->
            << Href(FALSE, <<"a">>, TRUE), Href(FALSE, <<"d">>, TRUE),
               Href(FALSE, <<"x.txt">>, FALSE) >>
      [] site = "tree" /\ path = <<"a">> ->
            << Href(FALSE, <<"..", "d">>, TRUE), Href(FALSE, <<"y.txt">>, FALSE) >>
      [] site = "tree" /\ path = <<"d">> ->
            << Href(FALSE, <<"e">>, TRUE) >>
      [] site = "tree" /\ path = <<"d", "e">> ->
            << Href(FALSE, <<"z.txt">>, FALSE) >>
      [] site = "dup" /\ path = <<>> ->
            << Href(FALSE, <<"..">>, TRUE), Href(FALSE, <<"a">>, TRUE),
               Href(FALSE, <<"a", "y.txt">>, FALSE), Href(FALSE, <<"p.php">>, FALSE) >>
      [] site = "dup" /\ path = <<"a">> ->
            << Href(FALSE, <<"y.txt">>, FALSE), Href(FALSE, <<".", "y.txt">>, FALSE),
               Href(TRUE, <<"a">>, TRUE) >>
      [] site = "sub" /\ path = <<"files">> ->
            << Href(FALSE, <<"a">>, TRUE), Href(FALSE, <<"x.txt">>, FALSE),
               Href(FALSE, <<"..", "x.txt">>, FALSE), Href(TRUE, <<"other">>, TRUE) >>
      [] site = "sub" /\ path = <<"files", "a">> ->
            << Href(FALSE, <<"y.txt">>, FALSE) >>
      [] site = "sub" /\ path = <<"other">> ->
            << Href(FALSE, <<"s.txt">>, FALSE) >>
      [] site = "abs" /\ path = <<"files">> ->
            << Href(TRUE, <<"files", "a">>, TRUE), Href(TRUE, <<"files", "x.txt">>, FALSE) >>
      [] site = "abs" /\ path = <<"files", "a">> ->
            << Href(FALSE, <<"y.txt">>, FALSE), Href(TRUE, <<"files", "a">>, TRUE),
               Href(TRUE, <<"files">>, TRUE) >>
      [] site = "pub" /\ path = <<>> ->
            << Href(FALSE, <<"b">>, TRUE), Href(FALSE, <<"i.png">>, FALSE),
               Href(FALSE, <<"U.TXT">>, FALSE) >>
      [] site = "pub" /\ path = <<"b">> ->
            << Href(FALSE, <<"c">>, TRUE), Href(TRUE, <<"b">>, TRUE) >>
      [] site = "pub" /\ path = <<"b", "c">> ->
            << Href(TRUE, <<"b">>, TRUE) >>
      [] OTHER -> <<>>

DirPaths(site) ==
    CASE site = "tree" -> { <<>>, <<"a">>, <<"d">>, <<"d", "e">> }
      [] site = "dup"  -> { <<>>, <<"a">> }
      [] site = "sub"  -> { <<>>, <<"files">>, <<"files", "a">>, <<"other">> }
      [] site = "pub"  -> { <<>>, <<"b">>, <<"b", "c">> }
      [] site = "abs"  -> { <<>>, <<"files">>, <<"files", "a">> }

FilePaths(site) ==
    CASE site = "tree" -> { <<"x.txt">>, <<"a", "y.txt">>, <<"d", "e", "z.txt">> }
      [] site = "dup"  -> { <<"a", "y.txt">>, <<"p.php">> }
      [] site = "sub"  -> { <<"files", "x.txt">>, <<"files", "a", "y.txt">>,
                            <<"other", "s.txt">> }
      [] site = "pub"  -> { <<"i.png">>, <<"U.TXT">> }
      [] site = "abs"  -> { <<"files", "x.txt">>, <<"files", "a", "y.txt">> }

\* GET url answers 200 (raise_for_status passes) iff the path exists; the
\* server redirects a directory written without '/' and requests follows.
ServerHas(site, u) == u.path \in DirPaths(site) \cup FilePaths(site)

\* The links of the page GET url returns (a file's body holds no link).
PageLinks(site, u) == IF u.path \in DirPaths(site) THEN DirListing(site, u.path) ELSE <<>>

\* ------------------------------------------------------- the listing parser
\* href not in ['../', '../', '/', './', '.'] : the test every extraction
\* routine applies to a raw href.
SkippedHref(h) ==
    \/ ~h.abs /\ h.segs = <<"..">> /\ h.slash
    \/ h.abs /\ h.segs = <<>> /\ h.slash
    \/ ~h.abs /\ h.segs = <<".">>

_create_item_hrefOnly(base, h) ==
    [url |-> urljoin(base, h), is_directory |-> h.slash, href |-> h]

\* href.endswith('/') or (name.endswith('/') and not '.' in
\* name.split('/')[-1]): the part of a name after its last '/' is empty
\* when the name ends in '/', so the second test is name.endswith('/').
_create_item(base, h) ==
    [url |-> urljoin(base, h), is_directory |-> h.slash \/ h.nameSlash, href |-> h]

RECURSIVE ExtractItems(_, _)
ExtractItems(base, links) ==
    IF links = <<>> THEN <<>>
    ELSE IF SkippedHref(Head(links)) THEN ExtractItems(base, Tail(links))
    ELSE <<_create_item(base, Head(links))>> \o ExtractItems(base, Tail(links))

\* The validation loop of parse_directory_listing: an item whose url was
\* seen earlier in the page is dropped.  (The off-site test that follows
\* it applies to hrefs starting with http:// or https:// only.)
Validate_noDedup(items, seen_urls) == items

RECURSIVE Validate(_, _)
Validate(items, seen_urls) ==
    IF items = <<>> THEN <<>>
    ELSE IF Head(items).url \in seen_urls THEN Validate(Tail(items), seen_urls)
    ELSE <<Head(items)>> \o Validate(Tail(items), seen_urls \cup {Head(items).url})

\* parse_directory_listing on a page of the sites above: they carry no
\* server fingerprint and no href the generic routine alone refuses.
parse_directory_listing(url, links) == Validate(ExtractItems(url, links), {})

\* ------------------------------------------- detection and the routines
\* A response is [server, content, links]: the words of the lower-cased
\* Server header, the phrases of the lower-cased page text the detection
\* looks for, and the anchors of the page in document order.  An anchor is
\* [href, where]: where it stands is "tr" (in a table row after the first),
\* "pre" (in the pre block, on a dated line of its own), "ul" (in a list)
\* or "p" (elsewhere).  Its text is the last segment of its href, followed
\* by '/' when href.nameSlash.
Link(href, where) == [href |-> href, where |-> where]

\* The elif chain over the Server header.
FromHeader(server) ==
    IF "apache" \in server THEN <<"apache">>
    ELSE IF "nginx" \in server THEN <<"nginx">>
    ELSE IF "iis" \in server \/ "microsoft" \in server THEN <<"iis">>
    ELSE IF "lighttpd" \in server THEN <<"lighttpd">>
    ELSE IF "python" \in server THEN <<"python">>
    ELSE <<>>

\* The elif chain over the page text.
FromContent(content) ==
    IF "index of" \in content /\ "apache" \in content THEN <<"apache">>
    ELSE IF "directory listing for" \in content THEN <<"python">>
    ELSE IF "<h1>index of" \in content THEN <<"nginx">>
    ELSE IF "autoindex" \in content THEN <<"nginx">>
    ELSE IF "<title>[to parent directory]</title>" \in content THEN <<"iis">>
    ELSE <<>>

Range(s) == {s[i] : i \in 1..Len(s)}

\* list(S) of a set of strings: the elements once each, in the order the
\* process's string hashing gives, which is any order.
ListsOf(S) == {l \in [1..Cardinality(S) -> S] : Range(l) = S}

\* The lists detect_server_type can return for a Server header and a text.
detect_server_type(server, content) ==
    LET types == FromHeader(server) \o FromContent(content)
    IN  IF types # <<>> THEN ListsOf(Range(types)) ELSE {<<"unknown">>}

\* The hrefs of the anchors of a page standing in one of the places.
RECURSIVE HrefsIn(_, _)
HrefsIn(links, places) ==
    IF links = <<>> THEN <<>>
    ELSE IF Head(links).where \in places
         THEN <<Head(links).href>> \o HrefsIn(Tail(links), places)
         ELSE HrefsIn(Tail(links), places)

Anywhere == {"tr", "pre", "ul", "p"}

\* not href.startswith(('http', 'mailto')), for the hrefs of the pages.
RECURSIVE NotHttpMailto(_)
NotHttpMailto(hrefs) ==
    IF hrefs = <<>> THEN <<>>
    ELSE IF SchemeOf(Head(hrefs)) = "mailto:" THEN NotHttpMailto(Tail(hrefs))
    ELSE <<Head(hrefs)>> \o NotHttpMailto(Tail(hrefs))

\* soup.find_all('a', href=True) filtered as the nginx and python routines
\* filter it when their own place held nothing.
AllLinksFallback(url, links) == ExtractItems(url, NotHttpMailto(HrefsIn(links, Anywhere)))

\* The first anchor of every table row but the first; without such rows the
\* routine searches pre.get_text() for '<a href=', which the text of a
\* parsed page never holds.
parse_apache_listing(url, links) == ExtractItems(url, HrefsIn(links, {"tr"}))

parse_nginx_listing(url, links) ==
    LET items == ExtractItems(url, HrefsIn(links, {"pre"}))
    IN  IF items # <<>> THEN items ELSE AllLinksFallback(url, links)

\* Every dated line of the pre block: the file name is the last word of the
\* line, here the anchor's text with the '/' its name ends in; the href is
\* the file name, with '/' added on a line marked <DIR>, the lines of the
\* anchors whose href ends in '/'.
RECURSIVE parse_iis_listing(_, _)
parse_iis_listing(url, links) ==
    IF links = <<>> THEN <<>>
    ELSE LET l == Head(links)
             text == l.href.segs[Len(l.href.segs)]
             h == [abs |-> FALSE, segs |-> <<text>>,
                   slash |-> l.href.slash \/ l.href.nameSlash,
                   nameSlash |-> l.href.nameSlash]
         IN  IF l.where = "pre" /\ l.href.segs # <<>> /\ text \notin {".", ".."}
             THEN <<_create_item(url, h)>> \o parse_iis_listing(url, Tail(links))
             ELSE parse_iis_listing(url, Tail(links))

parse_python_listing(url, links) ==
    LET items == ExtractItems(url, HrefsIn(links, {"ul"}))
    IN  IF items # <<>> THEN items ELSE AllLinksFallback(url, links)

_is_valid_href(h) ==
    /\ ~SkippedHref(h)
    /\ ~FragmentOnly(h)
    /\ SchemeOf(h) = ""

\* Strategy 1 takes every anchor of the document; the strategies that
\* follow it take some of the same anchors, and run only when it kept none.
RECURSIVE parse_generic_listing(_, _)
parse_generic_listing(url, links) ==
    IF links = <<>> THEN <<>>
    ELSE IF _is_valid_href(Head(links).href)
         THEN <<_create_item(url, Head(links).href)>> \o parse_generic_listing(url, Tail(links))
         ELSE parse_generic_listing(url, Tail(links))

\* One turn of "for server_type in server_types": the routine of the type,
\* and nothing for a type without routine.
RoutineOf(server_type, url, links) ==
    CASE server_type = "apache" -> parse_apache_listing(url, links)
      [] server_type = "nginx"  -> parse_nginx_listing(url, links)
      [] server_type = "iis"    -> parse_iis_listing(url, links)
      [] server_type = "python" -> parse_python_listing(url, links)
      [] OTHER -> <<>>

\* The loop over server_types with its break, then the generic fallback:
\* the routine whose items are used, and the items.
RECURSIVE Dispatch(_, _, _)
Dispatch(server_types, url, links) ==
    IF server_types = <<>>
    THEN [routine |-> "generic", items |-> parse_generic_listing(url, links)]
    ELSE LET items == RoutineOf(Head(server_types), url, links)
         IN  IF items # <<>> THEN [routine |-> Head(server_types), items |-> items]
             ELSE Dispatch(Tail(server_types), url, links)

\* The text of the anchor an item was made from, [text, slash]: slash says
\* that it ends in '/'.
NameOf(h) == [text |-> IF h.segs = <<>> THEN "" ELSE h.segs[Len(h.segs)],
              slash |-> h.nameSlash]

\* name.rstrip('/'), the 'name' of an item.
rstrip_name(name) == [name EXCEPT !.slash = FALSE]

\* parse_directory_listing(url, content) once detect_server_type returned
\* server_types: what it extracted, and the validated items it returns.
ParseWith(server_types, url, links) ==
    LET d == Dispatch(server_types, url, links)
    IN  [types |-> server_types, routine |-> d.routine,
         extracted |-> d.items, items |-> Validate(d.items, {}),
         names |-> [k \in 1..Len(d.items) |-> rstrip_name(NameOf(d.items[k].href))]]

\* The directory items of the listing of u on site s.
DirLinksOf(s, u) ==
    LET items == parse_directory_listing(u, PageLinks(s, u))
    IN  {items[k].url : k \in {n \in 1..Len(items) : items[n].is_directory}}

\* The urls of the link graph of site s: S and every url a chain of
\* directory links reaches from it.
RECURSIVE Closure(_, _)
Closure(s, S) ==
    LET T == S \cup UNION {DirLinksOf(s, u) : u \in S}
    IN  IF T = S THEN S ELSE Closure(s, T)

\* -------------------------------------------------------------------- state
VARIABLES
    site,               \* the web site the run is pointed at
    base_url,           \* self.base_url
    max_depth,          \* self.max_depth
    allowed_extensions, \* self.allowed_extensions ({} when not configured)
    ignore_robots,      \* self.ignore_robots
    link_graph,          \* auxiliary: the urls of the site's link graph from base_url
    visited_urls,       \* self.visited_urls
    call,               \* the crawl_directory call being entered: <<>> or <<[url, depth, fetched]>>
    stack,              \* the crawl_directory calls inside their item loop, innermost last
    download_queue,     \* self.download_queue
    unfinished_tasks,   \* Queue.unfinished_tasks: put() adds one, task_done() removes one
    workers_active,     \* self.workers_active
    stats,              \* self.stats
    downloaded_files,   \* self.downloaded_files
    failed_downloads,   \* self.failed_downloads
    disk,               \* the paths that exist under output_dir
    partial,            \* the files among them that a failed download left incomplete
    workers,            \* the worker threads, a bag of [pc, item]: where the thread is
                        \* and the item it holds, <<>> or <<item>>
    mainpc,             \* where the main thread is
    saveRet,            \* where the main thread goes after save_progress
    stats_copy,         \* stats_copy of the save_progress in progress
    progress_file,      \* download_progress.json: <<>> or <<contents>>
    cancelled,          \* signal_handler has run
    faults,             \* transient faults injected so far
    pass,               \* which run against this output directory
    crawlLog,           \* history: the GETs crawl_directory issued, [url, depth, ok]:
                        \* ok is FALSE when the call ended in its except clause
    refused,            \* history: the calls that returned at once, [url, depth, why]
    putLog,             \* history: the url of every download_queue.put, in order
    putFrom,            \* history: per put, the url of the listing it came from
    taken,              \* history: per put, how many times get() returned it
    outcomes,           \* history: per put, the outcomes download_file counted
    dlFetched,          \* history: the puts download_file issued a GET for
    existed,            \* history: the puts whose local path existed at the check
    queueAtCancel,      \* history: <<>> or <<the ids queued when the flag was cleared by a signal>>
    prevPut,            \* history: the urls put by the earlier runs
    robotsChecks,       \* history: the calls of check_robots_txt in this run
    last_bytes_downloaded, \* self.last_bytes_downloaded
    unlockedWrites,     \* history: the stats fields and logs written by a step that
                        \* is not inside a "with self.lock:" block
    response,           \* the response detect_server_type and parse_directory_listing
                        \* are applied to: [server, content, links]
    server_types,       \* <<>> or <<the list detect_server_type(response) returned>>
    parsed              \* <<>> or <<what parse_directory_listing(url, response.content)
                        \* did: [types, routine, extracted, items, names]>>

config == <<site, base_url, max_depth, allowed_extensions, ignore_robots, link_graph>>
crawlVars == <<visited_urls, call, stack>>
queueVars == <<download_queue, unfinished_tasks>>
logVars == <<downloaded_files, failed_downloads>>
workerVars == <<workers>>
saveVars == <<saveRet, stats_copy, progress_file>>
crawlHist == <<crawlLog, refused, putLog, putFrom>>
workerHist == <<taken, outcomes, dlFetched, existed>>
cancelHist == <<queueAtCancel>>
statusVars == <<last_bytes_downloaded, unlockedWrites>>
parseVars == <<response, server_types, parsed>>
runVars == <<config, crawlVars, queueVars, workers_active, stats, logVars, disk, partial,
             workerVars, mainpc, saveVars, cancelled, faults, pass,
             crawlHist, workerHist, cancelHist, prevPut, robotsChecks, statusVars>>
vars == <<runVars, parseVars>>

ZeroStats == [urls_discovered |-> 0, files_downloaded |-> 0, bytes_downloaded |-> 0,
              errors |-> 0, total_files_found |-> 0, download_speed |-> 0]

\* A thread that is about to run worker_thread.
NewThread == [pc |-> "check", item |-> <<>>]

\* The max_workers threads start_download creates.
NewThreads == [t \in {NewThread} |-> NumWorkers]

\* The state __init__ leaves, for a run against output directory d.
Fresh(d, p, prev) ==
    /\ visited_urls = {} /\ call = <<>> /\ stack = <<>>
    /\ download_queue = <<>> /\ unfinished_tasks = 0
    /\ workers_active = FALSE
    /\ stats = ZeroStats
    /\ downloaded_files = <<>> /\ failed_downloads = <<>>
    /\ disk = d /\ partial = {}
    /\ workers = NewThreads
    /\ mainpc = "start" /\ saveRet = "exit" /\ stats_copy = ZeroStats
    /\ progress_file = <<>>
    /\ cancelled = FALSE /\ faults = 0 /\ pass = p
    /\ crawlLog = <<>> /\ refused = {} /\ putLog = <<>> /\ putFrom = <<>>
    /\ taken = <<>> /\ outcomes = <<>> /\ dlFetched = {} /\ existed = {}
    /\ queueAtCancel = <<>>
    /\ prevPut = prev
    /\ robotsChecks = 0
    /\ last_bytes_downloaded = 0 /\ unlockedWrites = {}

\* The command lines checked: --extensions and --ignore-robots are given
\* for the site "pub" only, --max-depth varies for every site.
CommandLines ==
    [site : Sites \ {"pub"}, extensions : {{}}, ignore_robots : {FALSE}]
        \cup [site : {"pub"}, extensions : {{"txt"}}, ignore_robots : BOOLEAN]

\* main and __init__, for one of the command lines given.
NoResponse == [server |-> {}, content |-> {}, links |-> <<>>]

\* The downloader constructed from a command line, before start_download.
Constructed(lines) ==
    /\ \E c \in lines :
          /\ site = c.site
          /\ allowed_extensions = c.extensions
          /\ ignore_robots = c.ignore_robots
    /\ base_url = rstrip(RootOf(site))
    /\ link_graph = Closure(site, {base_url})
    /\ max_depth \in 0..MaxDepth
    /\ Fresh({}, 1, {})

InitFor(lines) ==
    /\ Constructed(lines)
    /\ response = NoResponse /\ server_types = <<>> /\ parsed = <<>>

Init == InitFor(CommandLines)

\* -------------------------------------------------------------- main thread
\* What every step of start_download before the workers are started leaves
\* alone.
GateUnchanged ==
    UNCHANGED <<config, crawlVars, queueVars, workers_active, stats, logVars, disk, partial,
                workerVars, saveVars, cancelled, faults, pass,
                crawlHist, workerHist, cancelHist, prevPut, statusVars, parseVars>>

\* start_download, "if not getattr(self, 'ignore_robots', False)" is false:
\* check_robots_txt is not called.
RobotsIgnored ==
    /\ mainpc = "start" /\ ignore_robots
    /\ mainpc' = "workers"
    /\ UNCHANGED robotsChecks
    /\ GateUnchanged

\* check_robots_txt returns True: robots.txt allows the root, is not served
\* with status 200, or the GET raises.
RobotsAllows ==
    /\ mainpc = "start" /\ ~ignore_robots
    /\ robotsChecks' = robotsChecks + 1
    /\ mainpc' = "workers"
    /\ GateUnchanged

\* check_robots_txt returns False (robots.txt disallows the root): the
\* user is asked "Continue? (y/N)".
RobotsDisallows ==
    /\ mainpc = "start" /\ ~ignore_robots
    /\ robotsChecks' = robotsChecks + 1
    /\ mainpc' = "ask"
    /\ GateUnchanged

\* input().lower() == 'y'.
UserConfirms ==
    /\ mainpc = "ask"
    /\ mainpc' = "workers"
    /\ UNCHANGED robotsChecks
    /\ GateUnchanged

\* Any other answer: start_download returns, before its try/finally.
UserDeclines ==
    /\ mainpc = "ask"
    /\ mainpc' = "declined"
    /\ UNCHANGED robotsChecks
    /\ GateUnchanged

\* Mutant of MainStart: the workers are started and the crawl is called
\* without waiting for the robots.txt gate.
MainStart_ungated ==
    /\ mainpc \in {"start", "ask", "workers"}
    /\ mainpc' = "crawl"
    /\ workers_active' = TRUE
    /\ call' = << [url |-> base_url, depth |-> 0, fetched |-> FALSE] >>
    /\ UNCHANGED <<config, visited_urls, stack, queueVars, stats, logVars, disk, partial,
                   workerVars, saveVars, cancelled, faults, pass,
                   crawlHist, workerHist, cancelHist, prevPut, robotsChecks, statusVars, parseVars>>

\* start_download past the gate: the workers are started with the flag
\* set, then crawl_directory(self.base_url) is called.
MainStart ==
    /\ mainpc = "workers"
    /\ mainpc' = "crawl"
    /\ workers_active' = TRUE
    /\ call' = << [url |-> base_url, depth |-> 0, fetched |-> FALSE] >>
    /\ UNCHANGED <<config, visited_urls, stack, queueVars, stats, logVars, disk, partial,
                   workerVars, saveVars, cancelled, faults, pass,
                   crawlHist, workerHist, cancelHist, prevPut, robotsChecks, statusVars, parseVars>>

\* Mutant of DepthExceeded: >= for >.
DepthExceeded_offByOne(depth) == depth >= max_depth

\* current_depth > self.max_depth
DepthExceeded(depth) == depth > max_depth

\* Mutant of CrawlRefuseDepth: the url is added to visited_urls before the
\* depth test.
CrawlRefuseDepth_marksVisited ==
    /\ mainpc = "crawl" /\ call # <<>> /\ ~call[1].fetched
    /\ DepthExceeded(call[1].depth)
    /\ call' = <<>>
    /\ visited_urls' = visited_urls \cup {call[1].url}
    /\ refused' = refused \cup {[url |-> call[1].url, depth |-> call[1].depth, why |-> "depth"]}
    /\ UNCHANGED <<config, stack, queueVars, workers_active, stats, logVars,
                   disk, partial, workerVars, mainpc, saveVars, cancelled, faults, pass,
                   crawlLog, putLog, putFrom, workerHist, cancelHist, prevPut, robotsChecks, statusVars, parseVars>>

\* crawl_directory: "if current_depth > self.max_depth: return".
CrawlRefuseDepth ==
    /\ mainpc = "crawl" /\ call # <<>> /\ ~call[1].fetched
    /\ DepthExceeded(call[1].depth)
    /\ call' = <<>>
    /\ refused' = refused \cup {[url |-> call[1].url, depth |-> call[1].depth, why |-> "depth"]}
    /\ UNCHANGED <<config, visited_urls, stack, queueVars, workers_active, stats, logVars,
                   disk, partial, workerVars, mainpc, saveVars, cancelled, faults, pass,
                   crawlLog, putLog, putFrom, workerHist, cancelHist, prevPut, robotsChecks, statusVars, parseVars>>

\* Mutant of AlreadyVisited: the visited test is missing.
AlreadyVisited_never(url) == FALSE

\* url in self.visited_urls
AlreadyVisited(url) == url \in visited_urls

\* crawl_directory: "if url in self.visited_urls: return".
CrawlRefuseVisited ==
    /\ mainpc = "crawl" /\ call # <<>> /\ ~call[1].fetched
    /\ ~DepthExceeded(call[1].depth)
    /\ AlreadyVisited(call[1].url)
    /\ call' = <<>>
    /\ refused' = refused \cup {[url |-> call[1].url, depth |-> call[1].depth, why |-> "visited"]}
    /\ UNCHANGED <<config, visited_urls, stack, queueVars, workers_active, stats, logVars,
                   disk, partial, workerVars, mainpc, saveVars, cancelled, faults, pass,
                   crawlLog, putLog, putFrom, workerHist, cancelHist, prevPut, robotsChecks, statusVars, parseVars>>

\* self.visited_urls.add(url), then the GET succeeds.
CrawlFetch ==
    /\ mainpc = "crawl" /\ call # <<>> /\ ~call[1].fetched
    /\ ~DepthExceeded(call[1].depth)
    /\ ~AlreadyVisited(call[1].url)
    /\ ServerHas(site, call[1].url)
    /\ visited_urls' = visited_urls \cup {call[1].url}
    /\ crawlLog' = Append(crawlLog, [url |-> call[1].url, depth |-> call[1].depth, ok |-> TRUE])
    /\ call' = << [call[1] EXCEPT !.fetched = TRUE] >>
    /\ UNCHANGED <<config, stack, queueVars, workers_active, stats, logVars,
                   disk, partial, workerVars, mainpc, saveVars, cancelled, faults, pass,
                   refused, putLog, putFrom, workerHist, cancelHist, prevPut, robotsChecks, statusVars, parseVars>>

\* Mutant of CrawlFetchError: the exception is not caught in the call and
\* unwinds the callers too.
CrawlFetchError_unwinds ==
    /\ mainpc = "crawl" /\ call # <<>> /\ ~call[1].fetched
    /\ ~DepthExceeded(call[1].depth)
    /\ ~AlreadyVisited(call[1].url)
    /\ \/ ~ServerHas(site, call[1].url) /\ faults' = faults
       \/ ServerHas(site, call[1].url) /\ faults < MaxFaults /\ faults' = faults + 1
    /\ visited_urls' = visited_urls \cup {call[1].url}
    /\ crawlLog' = Append(crawlLog, [url |-> call[1].url, depth |-> call[1].depth, ok |-> FALSE])
    /\ stats' = [stats EXCEPT !.errors = @ + 1]
    /\ call' = <<>> /\ stack' = <<>>
    /\ UNCHANGED <<config, queueVars, workers_active, logVars,
                   disk, partial, workerVars, mainpc, saveVars, cancelled, pass,
                   refused, putLog, putFrom, workerHist, cancelHist, prevPut, robotsChecks, statusVars, parseVars>>

\* self.visited_urls.add(url), then the GET raises (the server answers 404,
\* or a transient network fault): the except clause counts one error and
\* the call returns.
CrawlFetchError ==
    /\ mainpc = "crawl" /\ call # <<>> /\ ~call[1].fetched
    /\ ~DepthExceeded(call[1].depth)
    /\ ~AlreadyVisited(call[1].url)
    /\ \/ ~ServerHas(site, call[1].url) /\ faults' = faults
       \/ ServerHas(site, call[1].url) /\ faults < MaxFaults /\ faults' = faults + 1
    /\ visited_urls' = visited_urls \cup {call[1].url}
    /\ crawlLog' = Append(crawlLog, [url |-> call[1].url, depth |-> call[1].depth, ok |-> FALSE])
    /\ stats' = [stats EXCEPT !.errors = @ + 1]
    /\ call' = <<>>
    /\ UNCHANGED <<config, stack, queueVars, workers_active, logVars,
                   disk, partial, workerVars, mainpc, saveVars, cancelled, pass,
                   refused, putLog, putFrom, workerHist, cancelHist, prevPut, robotsChecks, statusVars, parseVars>>

\* The GET succeeded and parse_directory_listing raises (a transient
\* fault): the same except clause counts one error and the call returns
\* before the item loop.
CrawlParseError ==
    /\ mainpc = "crawl" /\ call # <<>> /\ call[1].fetched
    /\ faults < MaxFaults /\ faults' = faults + 1
    /\ crawlLog' = [crawlLog EXCEPT ![Len(crawlLog)].ok = FALSE]
    /\ stats' = [stats EXCEPT !.errors = @ + 1]
    /\ call' = <<>>
    /\ UNCHANGED <<config, visited_urls, stack, queueVars, workers_active, logVars,
                   disk, partial, workerVars, mainpc, saveVars, cancelled, pass,
                   refused, putLog, putFrom, workerHist, cancelHist, prevPut, robotsChecks, statusVars, parseVars>>

\* sum(1 for item in items if not item['is_directory'])
RECURSIVE file_count(_)
file_count(items) ==
    IF items = <<>> THEN 0
    ELSE (IF Head(items).is_directory THEN 0 ELSE 1) + file_count(Tail(items))

\* The rest of the call after the GET: the page is parsed; with no item the
\* call returns (the extension scan that follows an empty parse looks at the
\* same links with the stricter _is_valid_href and finds none either);
\* otherwise the counters are raised under the lock and the item loop starts.
CrawlParse ==
    /\ mainpc = "crawl" /\ call # <<>> /\ call[1].fetched
    /\ LET items == parse_directory_listing(call[1].url, PageLinks(site, call[1].url))
       IN  IF items = <<>>
           THEN UNCHANGED <<stats, stack>>
           ELSE /\ stats' = [stats EXCEPT !.urls_discovered = @ + Len(items),
                                         !.total_files_found = @ + file_count(items)]
                /\ stack' = Append(stack, [url |-> call[1].url, depth |-> call[1].depth,
                                           items |-> items, i |-> 1])
    /\ call' = <<>>
    /\ UNCHANGED <<config, visited_urls, queueVars, workers_active, logVars,
                   disk, partial, workerVars, mainpc, saveVars, cancelled, faults, pass,
                   crawlHist, workerHist, cancelHist, prevPut, robotsChecks, statusVars, parseVars>>

Top == stack[Len(stack)]
CurrentItem == Top.items[Top.i]
InLoop == mainpc = "crawl" /\ call = <<>> /\ stack # <<>>
Advance == [stack EXCEPT ![Len(stack)].i = @ + 1]

\* Mutant of is_safe_path: the allow-list is not consulted.
is_safe_path_anyExtension(href) == ~(HasDotDot(href) \/ href.abs)

\* is_safe_path: an href starting with '/' never starts with base_url, which
\* starts with the scheme, so every such href is refused.
is_safe_path(href) ==
    /\ ~(HasDotDot(href) \/ href.abs)
    /\ \/ allowed_extensions = {}
       \/ href.segs # <<>> /\ Suffix(href.segs[Len(href.segs)]) \in allowed_extensions

\* "Skip if it looks like a script or dynamic page".
LooksLikeScript(url) == LooksDynamic(url.path) /\ ~LooksStatic(url.path)

\* The item loop, a directory item: crawl_directory(item['url'], current_depth + 1).
CrawlDescend ==
    /\ InLoop /\ Top.i <= Len(Top.items) /\ workers_active
    /\ CurrentItem.is_directory
    /\ call' = << [url |-> CurrentItem.url, depth |-> Top.depth + 1, fetched |-> FALSE] >>
    /\ stack' = Advance
    /\ UNCHANGED <<config, visited_urls, queueVars, workers_active, stats, logVars,
                   disk, partial, workerVars, mainpc, saveVars, cancelled, faults, pass,
                   crawlHist, workerHist, cancelHist, prevPut, robotsChecks, statusVars, parseVars>>

\* Whether the item loop puts a file item on the queue.
Enqueues(item) == is_safe_path(item.href) /\ ~LooksLikeScript(item.url)

\* The item loop, a file item that is put on the queue.
CrawlEnqueue ==
    /\ InLoop /\ Top.i <= Len(Top.items) /\ workers_active
    /\ ~CurrentItem.is_directory
    /\ Enqueues(CurrentItem)
    /\ download_queue' = Append(download_queue,
                                [id |-> Len(putLog) + 1, url |-> CurrentItem.url])
    /\ unfinished_tasks' = unfinished_tasks + 1
    /\ putLog' = Append(putLog, CurrentItem.url)
    /\ putFrom' = Append(putFrom, Top.url)
    /\ taken' = Append(taken, 0)
    /\ outcomes' = Append(outcomes, <<>>)
    /\ stack' = Advance
    /\ UNCHANGED <<config, visited_urls, call, workers_active, stats, logVars,
                   disk, partial, workerVars, mainpc, saveVars, cancelled, faults, pass,
                   crawlLog, refused, dlFetched, existed, cancelHist, prevPut, robotsChecks, statusVars, parseVars>>

\* The item loop, a file item the filter or the script test drops.
CrawlReject ==
    /\ InLoop /\ Top.i <= Len(Top.items) /\ workers_active
    /\ ~CurrentItem.is_directory
    /\ ~Enqueues(CurrentItem)
    /\ stack' = Advance
    /\ UNCHANGED <<config, visited_urls, call, queueVars, workers_active, stats, logVars,
                   disk, partial, workerVars, mainpc, saveVars, cancelled, faults, pass,
                   crawlHist, workerHist, cancelHist, prevPut, robotsChecks, statusVars, parseVars>>

\* The item loop: "if not self.workers_active: break", and the call returns.
CrawlBreak ==
    /\ InLoop /\ Top.i <= Len(Top.items) /\ ~workers_active
    /\ stack' = Front(stack)
    /\ UNCHANGED <<config, visited_urls, call, queueVars, workers_active, stats, logVars,
                   disk, partial, workerVars, mainpc, saveVars, cancelled, faults, pass,
                   crawlHist, workerHist, cancelHist, prevPut, robotsChecks, statusVars, parseVars>>

\* The item loop is over and the call returns.
CrawlReturn ==
    /\ InLoop /\ Top.i > Len(Top.items)
    /\ stack' = Front(stack)
    /\ UNCHANGED <<config, visited_urls, call, queueVars, workers_active, stats, logVars,
                   disk, partial, workerVars, mainpc, saveVars, cancelled, faults, pass,
                   crawlHist, workerHist, cancelHist, prevPut, robotsChecks, statusVars, parseVars>>

\* The outermost crawl_directory call has returned: start_download goes on
\* to self.download_queue.join().
CrawlDone ==
    /\ mainpc = "crawl" /\ call = <<>> /\ stack = <<>>
    /\ mainpc' = "join"
    /\ UNCHANGED <<config, crawlVars, queueVars, workers_active, stats, logVars,
                   disk, partial, workerVars, saveVars, cancelled, faults, pass,
                   crawlHist, workerHist, cancelHist, prevPut, robotsChecks, statusVars, parseVars>>

\* self.download_queue.join() returns once every put has been acknowledged.
JoinQueue ==
    /\ mainpc = "join"
    /\ unfinished_tasks = 0
    /\ mainpc' = "finally"
    /\ UNCHANGED <<config, crawlVars, queueVars, workers_active, stats, logVars,
                   disk, partial, workerVars, saveVars, cancelled, faults, pass,
                   crawlHist, workerHist, cancelHist, prevPut, robotsChecks, statusVars, parseVars>>

\* The finally block of start_download: self.workers_active = False.
Finally ==
    /\ mainpc = "finally"
    /\ workers_active' = FALSE
    /\ mainpc' = "wjoin"
    /\ UNCHANGED <<config, crawlVars, queueVars, stats, logVars,
                   disk, partial, workerVars, saveVars, cancelled, faults, pass,
                   crawlHist, workerHist, cancelHist, prevPut, robotsChecks, statusVars, parseVars>>

\* worker.join(timeout=5) returns when the worker has ended, or when five
\* seconds have passed: a worker inside a GET or a streamed body can outlast
\* it.  save_progress is called next.
JoinReturns(t) == t.pc \in {"exit", "fetch", "write"}

WorkersJoin ==
    /\ mainpc = "wjoin"
    /\ \A t \in BagToSet(workers) : JoinReturns(t)
    /\ mainpc' = "save1"
    /\ saveRet' = "print"
    /\ UNCHANGED <<config, crawlVars, queueVars, workers_active, stats, logVars,
                   disk, partial, workerVars, stats_copy, progress_file, cancelled, faults, pass,
                   crawlHist, workerHist, cancelHist, prevPut, robotsChecks, statusVars, parseVars>>

\* save_progress: stats_copy = self.stats.copy().  The lock is not taken.
SaveCopy ==
    /\ mainpc = "save1"
    /\ stats_copy' = stats
    /\ mainpc' = "save2"
    /\ UNCHANGED <<config, crawlVars, queueVars, workers_active, stats, logVars,
                   disk, partial, workerVars, saveRet, progress_file, cancelled, faults, pass,
                   crawlHist, workerHist, cancelHist, prevPut, robotsChecks, statusVars, parseVars>>

\* What json.dump writes: the copied counters and the lists as they are now.
ProgressData ==
    [statistics |-> stats_copy,
     downloaded_files |-> downloaded_files,
     failed_downloads |-> failed_downloads,
     visited_urls |-> visited_urls]

\* save_progress: json.dump(progress_data, f), then the caller goes on.
SaveDump ==
    /\ mainpc = "save2"
    /\ progress_file' = << ProgressData >>
    /\ mainpc' = saveRet
    /\ UNCHANGED <<config, crawlVars, queueVars, workers_active, stats, logVars,
                   disk, partial, workerVars, saveRet, stats_copy, cancelled, faults, pass,
                   crawlHist, workerHist, cancelHist, prevPut, robotsChecks, statusVars, parseVars>>

\* print_statistics, after which start_download returns and the process
\* exits: the daemon worker threads end with it.
PrintStatistics ==
    /\ mainpc = "print"
    /\ mainpc' = "exit"
    /\ UNCHANGED <<config, crawlVars, queueVars, workers_active, stats, logVars,
                   disk, partial, workerVars, saveVars, cancelled, faults, pass,
                   crawlHist, workerHist, cancelHist, prevPut, robotsChecks, statusVars, parseVars>>

QueuedIds == {download_queue[k].id : k \in 1..Len(download_queue)}

\* What signal_handler does before save_progress.
HandlerClearsFlag ==
    /\ ~cancelled
    /\ workers_active' = FALSE
    /\ cancelled' = TRUE
    /\ queueAtCancel' = << QueuedIds >>
    /\ mainpc' = "save1"

\* SIGINT or SIGTERM while the main thread crawls or waits in join():
\* signal_handler clears the flag, calls save_progress and sys.exit(0); the
\* SystemExit unwinds every crawl_directory call (their except clauses catch
\* Exception only) into the finally block of start_download.
Signal ==
    /\ mainpc \in {"crawl", "join"}
    /\ HandlerClearsFlag
    /\ saveRet' = "finally"
    /\ call' = <<>> /\ stack' = <<>>
    /\ UNCHANGED <<config, visited_urls, queueVars, stats, logVars,
                   disk, partial, workerVars, stats_copy, progress_file, faults, pass,
                   crawlHist, workerHist, prevPut, robotsChecks, statusVars, parseVars>>

\* The signal arrives while parse_generic_listing runs one of its strategies:
\* the bare "except: continue" there catches the SystemExit of sys.exit(0),
\* and crawl_directory goes on with the flag cleared.
SignalSwallowed ==
    /\ mainpc = "crawl" /\ call # <<>> /\ call[1].fetched
    /\ HandlerClearsFlag
    /\ saveRet' = "crawl"
    /\ UNCHANGED <<config, crawlVars, queueVars, stats, logVars,
                   disk, partial, workerVars, stats_copy, progress_file, faults, pass,
                   crawlHist, workerHist, prevPut, robotsChecks, statusVars, parseVars>>

\* The tool is run again on the same site with the same output directory,
\* after a run that was not cancelled and in which no download failed:
\* __init__ starts from empty state, the files on disk stay.  The progress
\* file of the earlier run is never read (--resume is parsed and not used)
\* and is overwritten by the next save_progress: the model forgets it.
Rerun ==
    /\ mainpc = "exit" /\ pass < MaxPass
    /\ ~cancelled /\ failed_downloads = <<>>
    /\ visited_urls' = {} /\ call' = <<>> /\ stack' = <<>>
    /\ download_queue' = <<>> /\ unfinished_tasks' = 0
    /\ workers_active' = FALSE
    /\ stats' = ZeroStats
    /\ downloaded_files' = <<>> /\ failed_downloads' = <<>>
    /\ workers' = NewThreads
    /\ mainpc' = "start" /\ saveRet' = "exit" /\ stats_copy' = ZeroStats
    /\ progress_file' = <<>>
    /\ faults' = 0 /\ pass' = pass + 1
    /\ crawlLog' = <<>> /\ refused' = {} /\ putLog' = <<>> /\ putFrom' = <<>>
    /\ taken' = <<>> /\ outcomes' = <<>> /\ dlFetched' = {} /\ existed' = {}
    /\ prevPut' = prevPut \cup {putLog[k] : k \in 1..Len(putLog)}
    /\ robotsChecks' = 0
    /\ last_bytes_downloaded' = 0 /\ unlockedWrites' = {}
    /\ UNCHANGED <<config, disk, partial, cancelled, cancelHist, parseVars>>

\* The tool is run again after a run in which a download failed.
Retry ==
    /\ mainpc = "exit" /\ pass < MaxPass
    /\ ~cancelled /\ failed_downloads # <<>>
    /\ visited_urls' = {} /\ call' = <<>> /\ stack' = <<>>
    /\ download_queue' = <<>> /\ unfinished_tasks' = 0
    /\ workers_active' = FALSE
    /\ stats' = ZeroStats
    /\ downloaded_files' = <<>> /\ failed_downloads' = <<>>
    /\ workers' = NewThreads
    /\ mainpc' = "start" /\ saveRet' = "exit" /\ stats_copy' = ZeroStats
    /\ progress_file' = <<>>
    /\ faults' = 0 /\ pass' = pass + 1
    /\ crawlLog' = <<>> /\ refused' = {} /\ putLog' = <<>> /\ putFrom' = <<>>
    /\ taken' = <<>> /\ outcomes' = <<>> /\ dlFetched' = {} /\ existed' = {}
    /\ prevPut' = prevPut \cup {putLog[k] : k \in 1..Len(putLog)}
    /\ robotsChecks' = 0
    /\ last_bytes_downloaded' = 0 /\ unlockedWrites' = {}
    /\ UNCHANGED <<config, disk, partial, cancelled, cancelHist, parseVars>>

\* ----------------------------------------------------------- worker threads
\* The worker threads run from start_download's Thread.start() until the
\* process exits.
WorkersRun == mainpc \in {"crawl", "join", "finally", "wjoin", "save1", "save2", "print"}

\* The threads that are at pc.
At(pc) == {t \in BagToSet(workers) : WorkersRun /\ t.pc = pc}

\* One thread in state t moves to state u.
Step(t, u) == workers' = (workers (-) SetToBag({t})) (+) SetToBag({u})

\* parsed_url.path.lstrip('/') under output_dir: the trailing '/' of the
\* URL plays no part.
LocalPath(url) == url.path

\* Mutant of Exists: the existence test always fails.
Exists_never(path) == FALSE

\* local_path.exists(); output_dir itself always exists.
Exists(path) == path = <<>> \/ path \in disk

\* The directories local_path.parent.mkdir(parents=True) creates.
Parents(path) == {SubSeq(path, 1, n) : n \in 1..(Len(path) - 1)}

Item(t) == t.item[1]

\* "while self.workers_active:".
WCheck(t) ==
    /\ Step(t, [t EXCEPT !.pc = IF workers_active THEN "get" ELSE "exit"])
    /\ UNCHANGED <<config, crawlVars, queueVars, workers_active, stats, logVars, disk, partial,
                   mainpc, saveVars, cancelled, faults, pass,
                   crawlHist, workerHist, cancelHist, prevPut, robotsChecks, statusVars, parseVars>>

\* Mutant of AfterGet: the head is read and left in the queue.
AfterGet_peek(q) == q

\* What Queue.get leaves in the queue when it returns the head.
AfterGet(q) == Tail(q)

\* self.download_queue.get(timeout=5) returns an item.
WGet(t) ==
    /\ download_queue # <<>>
    /\ Step(t, [pc |-> "exists", item |-> << Head(download_queue) >>])
    /\ download_queue' = AfterGet(download_queue)
    /\ taken' = [taken EXCEPT ![Head(download_queue).id] = @ + 1]
    /\ UNCHANGED <<config, crawlVars, unfinished_tasks, workers_active, stats, logVars, disk, partial,
                   mainpc, saveVars, cancelled, faults, pass,
                   crawlHist, outcomes, dlFetched, existed, cancelHist, prevPut, robotsChecks, statusVars, parseVars>>

\* get(timeout=5) raises queue.Empty and "continue" leads back to the while
\* test.  While the flag is set the test sends the worker straight back into
\* get(): that round trip changes nothing and is left out, the worker stays
\* in get().
WGetEmpty(t) ==
    /\ download_queue = <<>>
    /\ ~workers_active
    /\ Step(t, [t EXCEPT !.pc = "check"])
    /\ UNCHANGED <<config, crawlVars, queueVars, workers_active, stats, logVars, disk, partial,
                   mainpc, saveVars, cancelled, faults, pass,
                   crawlHist, workerHist, cancelHist, prevPut, robotsChecks, statusVars, parseVars>>

\* Mutant of WSkip: the "return True" after the skip is missing and the
\* download follows.
WSkip_fallThrough(t) ==
    /\ Exists(LocalPath(Item(t).url))
    /\ disk' = disk \cup Parents(LocalPath(Item(t).url))
    /\ UNCHANGED partial
    /\ stats' = [stats EXCEPT !.files_downloaded = @ + 1]
    /\ outcomes' = [outcomes EXCEPT ![Item(t).id] = Append(@, "skip")]
    /\ existed' = existed \cup {Item(t).id}
    /\ Step(t, [t EXCEPT !.pc = "fetch"])
    /\ UNCHANGED <<config, crawlVars, queueVars, workers_active, logVars,
                   mainpc, saveVars, cancelled, faults, pass,
                   crawlHist, taken, dlFetched, cancelHist, prevPut, robotsChecks, statusVars, parseVars>>

\* download_file, the local path exists: files_downloaded is raised under
\* the lock and the function returns without a GET.
WSkip(t) ==
    /\ Exists(LocalPath(Item(t).url))
    /\ disk' = disk \cup Parents(LocalPath(Item(t).url))
    /\ UNCHANGED partial
    /\ stats' = [stats EXCEPT !.files_downloaded = @ + 1]
    /\ outcomes' = [outcomes EXCEPT ![Item(t).id] = Append(@, "skip")]
    /\ existed' = existed \cup {Item(t).id}
    /\ Step(t, [t EXCEPT !.pc = "done"])
    /\ UNCHANGED <<config, crawlVars, queueVars, workers_active, logVars,
                   mainpc, saveVars, cancelled, faults, pass,
                   crawlHist, taken, dlFetched, cancelHist, prevPut, robotsChecks, statusVars, parseVars>>

\* download_file, the local path does not exist: go on to the GET.
WMiss(t) ==
    /\ ~Exists(LocalPath(Item(t).url))
    /\ disk' = disk \cup Parents(LocalPath(Item(t).url))
    /\ UNCHANGED partial
    /\ Step(t, [t EXCEPT !.pc = "fetch"])
    /\ UNCHANGED <<config, crawlVars, queueVars, workers_active, stats, logVars,
                   mainpc, saveVars, cancelled, faults, pass,
                   crawlHist, workerHist, cancelHist, prevPut, robotsChecks, statusVars, parseVars>>

\* session.get(url, stream=True) answers 200 and open(local_path, 'wb')
\* creates the file.
WFetch(t) ==
    /\ ServerHas(site, Item(t).url)
    /\ dlFetched' = dlFetched \cup {Item(t).id}
    /\ disk' = disk \cup {LocalPath(Item(t).url)}
    /\ UNCHANGED partial
    /\ Step(t, [t EXCEPT !.pc = "write"])
    /\ UNCHANGED <<config, crawlVars, queueVars, workers_active, stats, logVars,
                   mainpc, saveVars, cancelled, faults, pass,
                   crawlHist, taken, outcomes, existed, cancelHist, prevPut, robotsChecks, statusVars, parseVars>>

\* Mutant of RecordFailure: the exception is not caught at all, leaves
\* worker_thread and ends the thread.
RecordFailure_uncaught(t, e) ==
    /\ Step(t, [t EXCEPT !.pc = "exit"])
    /\ UNCHANGED <<stats, failed_downloads, outcomes>>

\* The except clause of download_file: one error and one FailureRecord with
\* str(e), under the lock; download_file returns False and worker_thread
\* goes on to task_done().
RecordFailure(t, e) ==
    /\ stats' = [stats EXCEPT !.errors = @ + 1]
    /\ failed_downloads' = Append(failed_downloads, [url |-> Item(t).url, error |-> e])
    /\ outcomes' = [outcomes EXCEPT ![Item(t).id] = Append(@, "fail")]
    /\ Step(t, [t EXCEPT !.pc = "done"])

\* The GET raises: the server answers 404, or a transient network fault.
WFetchError(t) ==
    /\ \/ ~ServerHas(site, Item(t).url) /\ faults' = faults
       \/ ServerHas(site, Item(t).url) /\ faults < MaxFaults /\ faults' = faults + 1
    /\ dlFetched' = dlFetched \cup {Item(t).id}
    /\ RecordFailure(t, "get")
    /\ UNCHANGED <<config, crawlVars, queueVars, workers_active, downloaded_files, disk, partial,
                   mainpc, saveVars, cancelled, pass,
                   crawlHist, taken, existed, cancelHist, prevPut, robotsChecks, statusVars, parseVars>>

\* Mutant of WWrite: bytes_downloaded is not raised.
WWrite_noBytes(t) ==
    /\ stats' = [stats EXCEPT !.files_downloaded = @ + 1]
    /\ downloaded_files' = Append(downloaded_files,
                                  [url |-> Item(t).url,
                                   local_path |-> LocalPath(Item(t).url),
                                   size |-> BodySize(Item(t).url.path)])
    /\ outcomes' = [outcomes EXCEPT ![Item(t).id] = Append(@, "ok")]
    /\ Step(t, [t EXCEPT !.pc = "done"])
    /\ partial' = partial \ {LocalPath(Item(t).url)}
    /\ UNCHANGED <<config, crawlVars, queueVars, workers_active, failed_downloads, disk,
                   mainpc, saveVars, cancelled, faults, pass,
                   crawlHist, taken, dlFetched, existed, cancelHist, prevPut, robotsChecks, statusVars, parseVars>>

\* The body has been streamed to the file: the counters and the
\* DownloadRecord are written under the lock.
WWrite(t) ==
    /\ stats' = [stats EXCEPT !.files_downloaded = @ + 1,
                              !.bytes_downloaded = @ + BodySize(Item(t).url.path)]
    /\ downloaded_files' = Append(downloaded_files,
                                  [url |-> Item(t).url,
                                   local_path |-> LocalPath(Item(t).url),
                                   size |-> BodySize(Item(t).url.path)])
    /\ outcomes' = [outcomes EXCEPT ![Item(t).id] = Append(@, "ok")]
    /\ Step(t, [t EXCEPT !.pc = "done"])
    /\ partial' = partial \ {LocalPath(Item(t).url)}
    /\ UNCHANGED <<config, crawlVars, queueVars, workers_active, failed_downloads, disk,
                   mainpc, saveVars, cancelled, faults, pass,
                   crawlHist, taken, dlFetched, existed, cancelHist, prevPut, robotsChecks, statusVars, parseVars>>

\* Mutant of WWriteError: the exception is swallowed without an error
\* count and without a FailureRecord.
WWriteError_noRecord(t) ==
    /\ faults < MaxFaults /\ faults' = faults + 1
    /\ Step(t, [t EXCEPT !.pc = "done"])
    /\ UNCHANGED <<config, crawlVars, queueVars, workers_active, stats, logVars, disk, partial,
                   mainpc, saveVars, cancelled, pass,
                   crawlHist, workerHist, cancelHist, prevPut, robotsChecks, statusVars, parseVars>>

\* Streaming the body or writing a chunk raises (a transient fault): the
\* file stays as far as it was written, nothing removes it.
WWriteError(t) ==
    /\ faults < MaxFaults /\ faults' = faults + 1
    /\ RecordFailure(t, "write")
    /\ partial' = partial \cup {LocalPath(Item(t).url)}
    /\ UNCHANGED <<config, crawlVars, queueVars, workers_active, downloaded_files, disk,
                   mainpc, saveVars, cancelled, pass,
                   crawlHist, taken, dlFetched, existed, cancelHist, prevPut, robotsChecks, statusVars, parseVars>>

\* Mutant of WTaskDone: task_done() is not called.
WTaskDone_noAck(t) ==
    /\ Step(t, NewThread)
    /\ UNCHANGED <<config, crawlVars, queueVars, workers_active, stats, logVars, disk, partial,
                   mainpc, saveVars, cancelled, faults, pass,
                   crawlHist, workerHist, cancelHist, prevPut, robotsChecks, statusVars, parseVars>>

\* self.download_queue.task_done(), and back to the while test.
WTaskDone(t) ==
    /\ unfinished_tasks' = unfinished_tasks - 1
    /\ Step(t, NewThread)
    /\ UNCHANGED <<config, crawlVars, download_queue, workers_active, stats, logVars, disk, partial,
                   mainpc, saveVars, cancelled, faults, pass,
                   crawlHist, workerHist, cancelHist, prevPut, robotsChecks, statusVars, parseVars>>

\* ------------------------------------------------------------ status thread
\* One round of update_status while the flag is set: calculate_speed, a
\* second or more after the last one (the quotient is taken over one
\* second), writes stats['download_speed'] and last_bytes_downloaded.  No
\* lock is taken.  Every "with self.lock:" block of the other threads is
\* one action of this model, so the lock is free in every state and the
\* round can run in any state in which the thread is alive.
StatusTick ==
    /\ WorkersRun /\ workers_active
    /\ stats' = [stats EXCEPT !.download_speed = stats.bytes_downloaded - last_bytes_downloaded]
    /\ last_bytes_downloaded' = stats.bytes_downloaded
    /\ unlockedWrites' = unlockedWrites \cup {"download_speed"}
    /\ UNCHANGED <<config, crawlVars, queueVars, workers_active, logVars, disk, partial,
                   workerVars, mainpc, saveVars, cancelled, faults, pass,
                   crawlHist, workerHist, cancelHist, prevPut, robotsChecks, parseVars>>

\* ------------------------------------------------------------ specification
Next ==
    \/ RobotsIgnored
    \/ RobotsAllows
    \/ RobotsDisallows
    \/ UserConfirms
    \/ UserDeclines
    \/ MainStart
    \/ CrawlRefuseDepth
    \/ CrawlRefuseVisited
    \/ CrawlFetch
    \/ CrawlFetchError
    \/ CrawlParseError
    \/ CrawlParse
    \/ CrawlDescend
    \/ CrawlEnqueue
    \/ CrawlReject
    \/ CrawlBreak
    \/ CrawlReturn
    \/ CrawlDone
    \/ JoinQueue
    \/ Finally
    \/ WorkersJoin
    \/ SaveCopy
    \/ SaveDump
    \/ PrintStatistics
    \/ Signal
    \/ SignalSwallowed
    \/ Rerun
    \/ \E t \in At("check") : WCheck(t)
    \/ \E t \in At("get") : WGet(t)
    \/ \E t \in At("get") : WGetEmpty(t)
    \/ \E t \in At("exists") : WSkip(t)
    \/ \E t \in At("exists") : WMiss(t)
    \/ \E t \in At("fetch") : WFetch(t)
    \/ \E t \in At("fetch") : WFetchError(t)
    \/ \E t \in At("write") : WWrite(t)
    \/ \E t \in At("write") : WWriteError(t)
    \/ \E t \in At("done") : WTaskDone(t)

Spec == Init /\ [][Next]_vars

\* The steps of the main thread: start_download and what it calls.  A
\* signal and a second run of the tool are not among them.
MainStep ==
    \/ RobotsIgnored \/ RobotsAllows \/ RobotsDisallows \/ UserConfirms \/ UserDeclines
    \/ MainStart
    \/ CrawlRefuseDepth \/ CrawlRefuseVisited \/ CrawlFetch \/ CrawlFetchError
    \/ CrawlParseError \/ CrawlParse
    \/ CrawlDescend \/ CrawlEnqueue \/ CrawlReject \/ CrawlBreak \/ CrawlReturn \/ CrawlDone
    \/ JoinQueue \/ Finally \/ WorkersJoin \/ SaveCopy \/ SaveDump \/ PrintStatistics

\* The steps of the worker threads.
WorkerStep ==
    \/ \E t \in At("check") : WCheck(t)
    \/ \E t \in At("get") : WGet(t) \/ WGetEmpty(t)
    \/ \E t \in At("exists") : WSkip(t) \/ WMiss(t)
    \/ \E t \in At("fetch") : WFetch(t) \/ WFetchError(t)
    \/ \E t \in At("write") : WWrite(t) \/ WWriteError(t)
    \/ \E t \in At("done") : WTaskDone(t)

\* One run of the tool, signals included.
NextRun == MainStep \/ WorkerStep \/ Signal \/ SignalSwallowed

\* One run under a scheduler that lets the main thread and the worker
\* threads run: a GET, a get(timeout=5), a join and an input() return, and
\* a thread that can take a step takes one.  No signal has to arrive.
FairSpec == Init /\ [][NextRun]_vars /\ WF_vars(MainStep) /\ WF_vars(WorkerStep)

\* The program with its status thread, run on the site "pub".
InitStatus == Init /\ site = "pub"

NextStatus == Next \/ StatusTick

SpecStatus == InitStatus /\ [][NextStatus]_vars

\* The program on the site "pub", run again after failures too.
InitRetry == InitFor([site : {"pub"}, extensions : {{"txt"}}, ignore_robots : BOOLEAN])

NextRetry == Next \/ Retry

SpecRetry == InitRetry /\ [][NextRetry]_vars

\* The program run on the site whose links are absolute paths.
InitAbs == InitFor([site : {AbsSite}, extensions : {{}}, ignore_robots : BOOLEAN])

SpecAbs == InitAbs /\ [][Next]_vars

\* ------------------------------------------------ the parser on its own
MaxLinks == 3          \* anchors of a page

Servers ==
    { {}, {"apache"}, {"nginx"}, {"iis", "microsoft"}, {"lighttpd"}, {"python"} }

Contents ==
    { {}, {"index of", "apache"}, {"directory listing for"},
      {"index of", "<h1>index of"}, {"autoindex"},
      {"<title>[to parent directory]</title>"} }

Anchors ==
    { Link(Href(FALSE, <<"a">>, TRUE), "tr"),
      Link(Href(FALSE, <<"y.txt">>, FALSE), "tr"),
      Link(Href(FALSE, <<".", "y.txt">>, FALSE), "tr"),
      Link(Href(FALSE, <<"mailto:m">>, FALSE), "tr"),
      Link(Href(FALSE, <<"..">>, TRUE), "pre"),
      Link(Href(FALSE, <<"y.txt">>, FALSE), "pre"),
      Link(Href(FALSE, <<"javascript:j">>, FALSE), "pre"),
      Link(Href(FALSE, <<"#">>, FALSE), "ul"),
      Link(HrefNamed(FALSE, <<"b">>, FALSE), "ul"),
      Link(Href(FALSE, <<"tel:1">>, FALSE), "p") }

LinkLists == UNION {[1..n -> Anchors] : n \in 0..MaxLinks}

\* The responses the functions are applied to: every Server header with
\* every text, and every list of anchors with every text.
\* parse_directory_listing hands detect_server_type no header.
Responses ==
    [server : Servers, content : Contents, links : {<<>>}]
      \cup [server : {{}}, content : Contents, links : LinkLists]

\* The url of the listing page.
PageUrl == Url(<<"d">>, TRUE)

\* detect_server_type(response).
DetectCall ==
    /\ server_types = <<>>
    /\ \E l \in detect_server_type(response.server, response.content) :
          server_types' = <<l>>
    /\ UNCHANGED <<runVars, response, parsed>>

\* parse_directory_listing(url, response.content): detection sees
\* MockResponse(content, {}), a response without headers.
ParseCall ==
    /\ parsed = <<>>
    /\ \E l \in detect_server_type({}, response.content) :
          parsed' = <<ParseWith(l, PageUrl, response.links)>>
    /\ UNCHANGED <<runVars, response, server_types>>

InitParse ==
    /\ Constructed([site : {"tree"}, extensions : {{}}, ignore_robots : {FALSE}])
    /\ max_depth = 0
    /\ response \in Responses /\ server_types = <<>> /\ parsed = <<>>

NextParse == DetectCall \/ ParseCall

SpecParse == InitParse /\ [][NextParse]_vars

\* ------------------------------------------------------------------- claims
Ids == 1..Len(putLog)

\* C1: in every reachable state files_downloaded plus the number of
\* FailureRecords is at most total_files_found, and no queued entry is
\* counted as downloaded or failed more than once.
C1_OutcomesWithinFound ==
    /\ stats.files_downloaded + Len(failed_downloads) <= stats.total_files_found
    /\ \A id \in Ids : Len(outcomes[id]) <= 1

\* C1 witness: every file found has been counted, one as downloaded and one
\* as failed.
C1_Witness ==
    /\ stats.files_downloaded >= 1 /\ Len(failed_downloads) >= 1
    /\ stats.files_downloaded + Len(failed_downloads) = stats.total_files_found

\* C2: crawl issues at most one GET per URL in a run, a URL is in
\* visited_urls before its page is parsed, descended from or enqueued from,
\* and a call on a visited URL returns without a GET.
C2_FetchedAtMostOnce ==
    /\ \A i, j \in 1..Len(crawlLog) : crawlLog[i].url = crawlLog[j].url => i = j
    /\ \A i \in 1..Len(crawlLog) : crawlLog[i].url \in visited_urls
    /\ \A k \in 1..Len(stack) : stack[k].url \in visited_urls
    /\ call # <<>> /\ call[1].fetched => call[1].url \in visited_urls

\* C2 witness: a second call on a URL that was fetched before has returned
\* (the URL is linked from two listings, or from its own listing).
C2_Witness ==
    \E r \in refused : r.why = "visited" /\ \E i \in 1..Len(crawlLog) : crawlLog[i].url = r.url

\* C3: a file URL is put on the download queue at most once per run.
C3_EnqueuedAtMostOnce ==
    \A i, j \in Ids : putLog[i] = putLog[j] => i = j

\* C4: every queued element is returned by get() at most once, to one
\* worker: no two workers hold the same element, and an element a worker
\* took is no longer in the queue.
C4_TakenByOneWorker ==
    /\ \A id \in Ids : taken[id] <= 1
    /\ \A t, u \in BagToSet(workers) :
          t.item # <<>> /\ u.item # <<>> /\ Item(t).id = Item(u).id
              => t = u /\ CopiesIn(t, workers) = 1
    /\ \A id \in QueuedIds : taken[id] = 0
    /\ \A t \in BagToSet(workers) : t.item # <<>> => taken[Item(t).id] = 1

\* C4 witness: two workers hold an element each at the same time.
C4_Witness ==
    \E t, u \in BagToSet(workers) : t # u /\ t.item # <<>> /\ u.item # <<>>

\* C5: every URL crawl fetched was entered at a depth <= max_depth, and no
\* call at a depth <= max_depth was refused for its depth (the root is at
\* depth 0).
C5_DepthBoundary ==
    /\ \A i \in 1..Len(crawlLog) : crawlLog[i].depth <= max_depth
    /\ \A r \in refused : r.why = "depth" => r.depth > max_depth

\* C5 witness: a directory below the root was fetched at depth max_depth
\* and a call at depth max_depth + 1 was refused.
C5_Witness ==
    /\ max_depth >= 1
    /\ \E i \in 1..Len(crawlLog) : crawlLog[i].depth = max_depth
    /\ \E r \in refused : r.why = "depth" /\ r.depth = max_depth + 1

\* The directory items of the listing of u.
DirLinks(u) ==
    LET items == parse_directory_listing(u, PageLinks(site, u))
    IN  {items[k].url : k \in {n \in 1..Len(items) : items[n].is_directory}}

\* The urls a chain of at most n directory links reaches from base_url.
RECURSIVE Within(_)
Within(n) ==
    IF n = 0 THEN {base_url}
    ELSE Within(n - 1) \cup UNION {DirLinks(u) : u \in Within(n - 1)}

\* The file urls the listing of u holds that the item loop would enqueue.
FileLinks(u) ==
    LET items == parse_directory_listing(u, PageLinks(site, u))
    IN  {items[k].url : k \in {n \in 1..Len(items) :
                                 ~items[n].is_directory /\ Enqueues(items[n])}}

\* Where the main thread is once the outermost crawl_directory call is over.
AfterCrawl == {"join", "finally", "wjoin", "save1", "save2", "print", "exit"}

\* The crawl has returned, was not cancelled, and nothing failed.
CrawlCompleted == mainpc \in AfterCrawl /\ ~cancelled /\ stats.errors = 0

\* C6: when the crawl of a run without failure and cancellation is over,
\* every directory within max_depth directory links of the root has been
\* fetched and every file its listing holds that passes the filter has been
\* enqueued.
C6_AllWithinDepthCrawled ==
    CrawlCompleted =>
        \A u \in Within(max_depth) :
            /\ u \in visited_urls
            /\ \A f \in FileLinks(u) : \E id \in Ids : putLog[id] = f

\* u lies in the subtree of the root URL given on the command line.
InRootSubtree(u) ==
    LET root == RootOf(site).path
    IN  Len(u.path) >= Len(root) /\ SubSeq(u.path, 1, Len(root)) = root

\* C7: every URL crawl fetches lies in the subtree of the declared root.
C7_VisitedInRootSubtree ==
    \A u \in visited_urls : InRootSubtree(u)

\* C8: the entries that were queued when the signal handler cleared the
\* flag stay in the queue: no worker dequeues one of them afterwards.
C8_NoDequeueAfterCancel ==
    queueAtCancel # <<>> => queueAtCancel[1] \subseteq QueuedIds

\* C9: when a cancelled run has exited, the progress file exists and holds
\* the counters and the records of every download that completed or failed.
C9_ProgressFileAccurate ==
    cancelled /\ mainpc = "exit" =>
        /\ progress_file # <<>>
        /\ progress_file[1].statistics.files_downloaded = stats.files_downloaded
        /\ progress_file[1].statistics.errors = stats.errors
        /\ progress_file[1].downloaded_files = downloaded_files
        /\ progress_file[1].failed_downloads = failed_downloads

\* The queued entries download_file counted as downloaded.
Downloaded == {id \in Ids : outcomes[id] # <<>> /\ outcomes[id][1] \in {"ok", "skip"}}

\* C10: an entry whose local path exists when the worker checks it is
\* counted in files_downloaded once and no GET is issued for it; in a run
\* after a run in which every download succeeded no GET is issued for a
\* url the earlier run had queued.
C10_ExistingFileSkipped ==
    /\ \A id \in existed : id \notin dlFetched /\ outcomes[id] = <<"skip">>
    /\ stats.files_downloaded = Cardinality(Downloaded)
    /\ pass > 1 => \A id \in dlFetched : putLog[id] \notin prevPut

\* C10 witness: a second run has exited after skipping every entry it
\* queued, all of them queued by the first run too.
C10_Witness ==
    /\ pass > 1 /\ mainpc = "exit"
    /\ Ids # {} /\ existed = Ids /\ dlFetched = {}
    /\ \A id \in Ids : putLog[id] \in prevPut
\* The queued entries a worker took and is through with.
Finished ==
    {id \in Ids : taken[id] > 0 /\
        ~\E t \in BagToSet(workers) :
            t.item # <<>> /\ Item(t).id = id /\ t.pc \in {"exists", "fetch", "write"}}

\* C11: every entry a worker is through with and that was not downloaded
\* has one FailureRecord, with the error detail and the url of the entry;
\* the failures are not counted in files_downloaded; the worker that
\* recorded the failure is at task_done() inside its loop, and no worker
\* thread has ended while the pool's flag is set.
C11_FailureRecordedPoolContinues ==
    /\ Len(failed_downloads) = Cardinality(Finished \ Downloaded)
    /\ \A k \in 1..Len(failed_downloads) :
          /\ failed_downloads[k].error \in {"get", "write"}
          /\ \E id \in Finished \ Downloaded : putLog[id] = failed_downloads[k].url
    /\ stats.files_downloaded + Len(failed_downloads) = Cardinality(Finished)
    /\ workers_active => \A t \in BagToSet(workers) : t.pc # "exit"

\* C11 witness: a run that was not cancelled has ended with one entry
\* failed and a later entry downloaded.
C11_Witness ==
    /\ mainpc = "exit" /\ ~cancelled
    /\ \E i, j \in Ids : i < j /\ outcomes[i] = <<"fail">> /\ outcomes[j] = <<"ok">>
\* The urls whose crawl_directory call ended in its except clause.
CrawlFailed == {crawlLog[i].url : i \in {n \in 1..Len(crawlLog) : ~crawlLog[n].ok}}

\* The crawl of a run that was not cancelled has returned: start_download
\* is at download_queue.join(), and the crawl's records change no more.
CrawlReturned == mainpc = "join" /\ ~cancelled

\* C12: each failed fetch or parse of a directory URL counts one error; the
\* URL stays in visited_urls, was fetched once, has no item loop and nothing
\* was enqueued from it; and when the crawl has returned, every item of
\* every page that did parse was still processed: each directory item was
\* passed to a call (fetched or refused) and each file item that passes the
\* filter was enqueued.
C12_CrawlErrorIsLocal ==
    /\ stats.errors = Cardinality(CrawlFailed) + Len(failed_downloads)
    /\ \A u \in CrawlFailed :
          /\ u \in visited_urls
          /\ Cardinality({i \in 1..Len(crawlLog) : crawlLog[i].url = u}) = 1
          /\ \A k \in 1..Len(stack) : stack[k].url # u
          /\ \A id \in Ids : putFrom[id] # u
    /\ CrawlReturned =>
          \A i \in 1..Len(crawlLog) : crawlLog[i].ok =>
              /\ \A d \in DirLinks(crawlLog[i].url) :
                    d \in visited_urls \/ \E r \in refused : r.url = d
              /\ \A f \in FileLinks(crawlLog[i].url) :
                    \E id \in Ids : putLog[id] = f /\ putFrom[id] = crawlLog[i].url

\* C12 witness: the crawl has returned after the fetch of a subdirectory
\* failed, and a sibling listed after it was fetched and a file enqueued
\* from the sibling.
C12_Witness ==
    /\ CrawlReturned
    /\ \E i, j \in 1..Len(crawlLog) :
          /\ i < j /\ ~crawlLog[i].ok /\ crawlLog[j].ok
          /\ crawlLog[i].depth = crawlLog[j].depth /\ crawlLog[i].depth > 0
          /\ \E id \in Ids : putFrom[id] = crawlLog[j].url
\* The producer is between entries: inside an item loop, or back in
\* start_download after the crawl.
BetweenEntries == InLoop \/ mainpc \in AfterCrawl

\* C13: whenever the producer is between entries, total_files_found is the
\* number of entries pushed onto the download queue so far.
C13_FoundEqualsPushed ==
    BetweenEntries => stats.total_files_found = Len(putLog)
\* C15: every directory item an item loop has passed to a recursive
\* crawl_directory call has an href without a '..' segment.
C15_NoDotDotDescent ==
    \A k \in 1..Len(stack) : \A j \in 1..(stack[k].i - 1) :
        stack[k].items[j].is_directory => ~HasDotDot(stack[k].items[j].href)

\* The threads that passed the existence check and are fetching or writing.
Downloading(t) == t.item # <<>> /\ t.pc \in {"fetch", "write"}

\* C17: no two workers are fetching or writing the same local path at the
\* same time.
C17_NoSharedDestination ==
    \A t, u \in BagToSet(workers) :
        Downloading(t) /\ Downloading(u) /\ LocalPath(Item(t).url) = LocalPath(Item(u).url)
            => t = u /\ CopiesIn(t, workers) = 1

\* C20: the GETs of a crawl are GETs of distinct urls of the link graph, so
\* there are at most as many as the graph has urls; the calls inside their
\* item loop are calls on distinct urls, at most max_depth + 1 of them.
C20_FetchesBoundedByGraph ==
    /\ \A i \in 1..Len(crawlLog) : crawlLog[i].url \in link_graph
    /\ Len(crawlLog) <= Cardinality(link_graph)
    /\ \A k, l \in 1..Len(stack) : stack[k].url = stack[l].url => k = l
    /\ Len(stack) <= max_depth + 1

\* C20 witness: the crawl of a graph with a cycle has returned with every
\* url of the graph fetched once, the link that closes the cycle having
\* been refused as visited at a depth within max_depth.
C20_Witness ==
    /\ CrawlReturned /\ stats.errors = 0
    /\ visited_urls = link_graph /\ Len(crawlLog) = Cardinality(link_graph)
    /\ \E r \in refused : r.why = "visited" /\ r.depth <= max_depth
\* The lower-cased extension of the file a url names.
Extension(url) == IF url.path = <<>> THEN "" ELSE Suffix(url.path[Len(url.path)])

\* C14: with an allow-list configured, every entry ever put on the download
\* queue, every entry a worker holds and every DownloadRecord names a file
\* whose lower-cased extension is in the allow-list.
C14_OnlyAllowedExtensions ==
    allowed_extensions # {} =>
        /\ \A id \in Ids : Extension(putLog[id]) \in allowed_extensions
        /\ \A k \in 1..Len(download_queue) :
              Extension(download_queue[k].url) \in allowed_extensions
        /\ \A t \in BagToSet(workers) :
              t.item # <<>> => Extension(Item(t).url) \in allowed_extensions
        /\ \A k \in 1..Len(downloaded_files) :
              Extension(downloaded_files[k].url) \in allowed_extensions

\* C14 witness: with the allow-list {txt} the run has ended; the listing
\* held i.png and U.TXT, and U.TXT alone was queued and downloaded.
C14_Witness ==
    /\ allowed_extensions = {"txt"} /\ mainpc = "exit"
    /\ stats.total_files_found = 2 /\ Len(putLog) = 1
    /\ Len(downloaded_files) = 1 /\ downloaded_files[1].url = Url(<<"U.TXT">>, FALSE)

\* Nothing of a run has happened: no crawl call, no worker started, empty
\* visited set and queue.
NothingStarted ==
    /\ call = <<>> /\ stack = <<>> /\ crawlLog = <<>> /\ refused = {}
    /\ visited_urls = {} /\ download_queue = <<>> /\ putLog = <<>>
    /\ ~workers_active /\ workers = NewThreads

\* C19: robots.txt is consulted at most once in a run; once the first
\* crawl call is made it has been consulted exactly once, unless
\* --ignore-robots was given, and then never; until the gate is passed,
\* and for good when the user declines, nothing of the run has happened.
C19_RobotsGateFirst ==
    /\ robotsChecks <= 1
    /\ WorkersRun \/ mainpc = "exit" => robotsChecks = (IF ignore_robots THEN 0 ELSE 1)
    /\ mainpc \in {"start", "ask", "workers", "declined"} => NothingStarted
    /\ mainpc \in {"ask", "declined"} => ~ignore_robots /\ robotsChecks = 1

\* C19 witness: robots.txt disallowed, the user declined and the run ended.
C19_Witness == mainpc = "declined" /\ robotsChecks = 1
\* C16: no stats field and no log is ever written outside a
\* "with self.lock:" block.
C16_WritesUnderLock == unlockedWrites = {}
\* The run has been told to stop by the finally block of start_download.
ToldToStop == mainpc \in {"wjoin", "save1", "save2", "print", "exit"}

\* Every entry put on the queue was taken by a worker and has its outcome.
Drained ==
    /\ download_queue = <<>> /\ unfinished_tasks = 0
    /\ \A id \in Ids : taken[id] = 1 /\ Len(outcomes[id]) = 1

\* C18: in a run that is not cancelled the workers' flag is cleared only
\* once every entry put on the queue has been taken and processed, the run
\* that has ended has written the progress file, and every run whose
\* workers were started ends that way unless it is cancelled.
C18_DrainedBeforeStop ==
    /\ [](~cancelled /\ ToldToStop => Drained)
    /\ [](~cancelled /\ WorkersRun /\ ~workers_active => ToldToStop)
    /\ [](~cancelled /\ mainpc = "exit" =>
             progress_file # <<>> /\ progress_file[1].statistics = stats)
    /\ (WorkersRun /\ ~cancelled) ~> (cancelled \/ (mainpc = "exit" /\ Drained))

\* C18 witness: a run that was not cancelled has ended with two entries
\* queued and processed and the progress file written.
C18_Witness ==
    /\ ~cancelled /\ mainpc = "exit" /\ Len(putLog) >= 2 /\ Drained
    /\ progress_file # <<>>
\* The call being entered will return at once: its depth exceeds max_depth
\* or its url is in visited_urls.
CallToRefuse ==
    /\ mainpc = "crawl" /\ call # <<>> /\ ~call[1].fetched
    /\ DepthExceeded(call[1].depth) \/ AlreadyVisited(call[1].url)

\* C21: a crawl call whose depth exceeds max_depth or whose url is visited
\* ends without a GET and with visited_urls, the download queue, the calls
\* of the callers, the logs and every counter unchanged.  (A signal ends
\* every call, this one included; that step is the handler's.)
C21_RefusalChangesNothing ==
    [][CallToRefuse /\ call' # call /\ cancelled' = cancelled =>
          /\ call' = <<>>
          /\ UNCHANGED <<visited_urls, stack, download_queue, unfinished_tasks,
                         stats, crawlLog, putLog, failed_downloads, downloaded_files>>]_vars

\* C21 witness: a call was refused for its depth and its url is not in
\* visited_urls, and another call was refused because its url was visited.
C21_Witness ==
    /\ \E r \in refused : r.why = "depth" /\ r.url \notin visited_urls
    /\ \E r \in refused : r.why = "visited"
\* The sum of the size fields of a list of DownloadRecords.
RECURSIVE SumSizes(_)
SumSizes(records) ==
    IF records = <<>> THEN 0 ELSE Head(records).size + SumSizes(Tail(records))

\* C28: between the lock blocks, bytes_downloaded is the sum of the sizes
\* of the DownloadRecords, and files_downloaded exceeds the number of
\* DownloadRecords by exactly the number of existence skips.
C28_BytesAndRecordsAgree ==
    /\ stats.bytes_downloaded = SumSizes(downloaded_files)
    /\ Len(downloaded_files) <= stats.files_downloaded
    /\ stats.files_downloaded - Len(downloaded_files) = Cardinality(existed)

\* C28 witness: a run has ended with a file downloaded and recorded and
\* another entry skipped because its file existed.
C28_Witness ==
    /\ mainpc = "exit"
    /\ Len(downloaded_files) >= 1 /\ stats.bytes_downloaded >= 1
    /\ existed # {} /\ stats.files_downloaded > Len(downloaded_files)
\* The worker threads that hold an entry they took from the queue.
Holding == {t \in BagToSet(workers) : t.item # <<>>}

\* The number of task_done() calls so far: every put raised
\* unfinished_tasks by one and every task_done() lowered it by one.
Acknowledged == Len(putLog) - unfinished_tasks

\* C29: an entry is taken at most once and gets at most one outcome; every
\* entry that is neither queued nor held by a worker is acknowledged;
\* whenever no worker holds an entry, every taken entry has exactly one
\* outcome and files_downloaded plus the number of FailureRecords is the
\* number of acknowledgements; the main thread waiting in
\* download_queue.join() is not kept there by an entry a worker took: the
\* join returns, unless the run was cancelled before it, and then the
\* workers come to hold no entry.
C29_OneOutcomeOneAck ==
    /\ [](\A id \in Ids : taken[id] <= 1 /\ Len(outcomes[id]) <= taken[id])
    /\ [](unfinished_tasks = Len(download_queue) + Cardinality(Holding))
    /\ [](Holding = {} =>
             /\ \A id \in Ids : Len(outcomes[id]) = taken[id]
             /\ stats.files_downloaded + Len(failed_downloads) = Acknowledged)
    /\ (mainpc = "join") ~> (mainpc # "join" \/ (cancelled /\ Holding = {}))

\* C29 witness: join() has returned after two entries were acknowledged,
\* one downloaded and one failed.
C29_Witness ==
    /\ mainpc = "finally" /\ Holding = {} /\ Acknowledged = 2
    /\ \E i, j \in Ids : outcomes[i] = <<"ok">> /\ outcomes[j] = <<"fail">>
\* C26: a file item whose href is an absolute path on the crawl's own site
\* (every url of the model is on the one host), without a '..' segment,
\* with an allowed extension and not script-like, is put on the download
\* queue by the item loop that comes to it.
C26_AbsoluteSameSitePathQueued ==
    \A k \in 1..Len(stack) : \A j \in 1..(stack[k].i - 1) :
        LET item == stack[k].items[j]
        IN  /\ ~item.is_directory /\ item.href.abs /\ ~HasDotDot(item.href)
            /\ allowed_extensions = {} \/ Extension(item.url) \in allowed_extensions
            /\ ~LooksLikeScript(item.url)
            => \E id \in Ids : putLog[id] = item.url /\ putFrom[id] = stack[k].url

\* C30: the listing of the root directory is fetched at most once in a
\* run, whether its url is written with or without the trailing slash.
C30_RootFetchedOnce ==
    Cardinality({i \in 1..Len(crawlLog) : crawlLog[i].url.path = base_url.path}) <= 1
\* C27: every entry counted in files_downloaded because its local path
\* existed names a file that no failed download left incomplete.
C27_SkipOnlyCompleteFiles ==
    \A id \in existed : LocalPath(putLog[id]) \notin partial

\* The fixed priority of the candidate types.
PriorityOrder == <<"apache", "nginx", "iis", "python">>

Rank(type) == CHOOSE i \in 1..Len(PriorityOrder) : PriorityOrder[i] = type

\* A list of types whose prioritised members stand once each and in the
\* order of PriorityOrder.
InPriorityOrder(l) ==
    \A i, j \in 1..Len(l) :
        (i < j /\ l[i] \in Range(PriorityOrder) /\ l[j] \in Range(PriorityOrder))
            => Rank(l[i]) < Rank(l[j])

\* The positions of a list of types whose routine yields an entry.
Yielding(types) ==
    {i \in 1..Len(types) : RoutineOf(types[i], PageUrl, response.links) # <<>>}

RECURSIVE FirstOccurrences(_, _)
FirstOccurrences(e, k) ==
    IF k > Len(e) THEN <<>>
    ELSE IF \E j \in 1..(k - 1) : e[j].url = e[k].url THEN FirstOccurrences(e, k + 1)
    ELSE <<e[k]>> \o FirstOccurrences(e, k + 1)

Unwanted(h) ==
    \/ SkippedHref(h)
    \/ FragmentOnly(h)
    \/ SchemeOf(h) \in {"mailto:", "javascript:", "tel:"}

\* C24: no item parse_directory_listing returns, whichever routine
\* extracted it, has an href that names the parent directory, the
\* directory itself, the root or a bare fragment, or that starts with
\* mailto:, javascript: or tel:.
C24_NoUnwantedHref ==
    parsed # <<>> =>
        \A k \in 1..Len(parsed[1].items) : ~Unwanted(parsed[1].items[k].href)


\* C25 as stated: an extracted item is a directory exactly when its href
\* ends in '/', whatever the text of its anchor.
C25_DirectoryIffHrefSlash ==
    parsed # <<>> =>
        \A k \in 1..Len(parsed[1].extracted) :
            parsed[1].extracted[k].is_directory <=> parsed[1].extracted[k].href.slash

\* C25: an extracted item is a directory exactly when its href ends in '/'
\* or the text of its anchor ends in '/'; its name is that text without the
\* '/' at its end.
C25_DirectoryIffHrefOrNameSlash ==
    parsed # <<>> =>
        \A k \in 1..Len(parsed[1].extracted) :
            LET item == parsed[1].extracted[k]
            IN  /\ item.is_directory <=> (item.href.slash \/ item.href.nameSlash)
                /\ parsed[1].names[k].text = NameOf(item.href).text
                /\ ~parsed[1].names[k].slash

\* The three cases in one page: a directory by its href, a directory by
\* its name only, and a file.
C25_Witness ==
    /\ parsed # <<>>
    /\ \E i, j, k \in 1..Len(parsed[1].extracted) :
          LET e == parsed[1].extracted
          IN  /\ e[i].is_directory /\ e[i].href.slash
              /\ e[j].is_directory /\ ~e[j].href.slash /\ e[j].href.nameSlash
              /\ ~parsed[1].names[j].slash
              /\ ~e[k].is_directory

=============================================================================
